---- MODULE Spec2Model ----
\* Model of app/node/__init__.py (NodeManager: the node registry and the
\* user-update fan-out) as a set of asyncio tasks sharing one registry.
\* A step of a task runs from one suspension point (an await that really
\* suspends) to the next, as the event loop runs it.
EXTENDS Integers, Sequences, FiniteSets, TLC

\* ---------------------------------------------------------------- bounds
NumTasks == 2
MaxId == 2
MaxCalls == 3

Tasks == 1..NumTasks
Ids == 1..MaxId
None == 0

\* ------------------------------------------------------------- constants
\* Health values of the node bridge (Health.*).
HealthStates == {"NOT_CONNECTED", "HEALTHY", "BROKEN", "INVALID"}
\* Values the attribute node.connection_type is drawn from: a key of
\* type_map (both keys take the same path) and a value that is not a key.
ConnectionTypes == {"grpc", "other"}
type_map == [rest |-> "rest", grpc |-> "grpc"]

WriterOps == {"update_node", "remove_node"}
FilterOps == {"get_healthy_nodes", "get_broken_nodes", "get_not_connected_nodes"}
BroadcastOps == {"update_users", "update_user", "remove_user"}

\* The health each filter compares get_health() with.
FilterTarget(name) ==
    CASE name = "get_healthy_nodes" -> "HEALTHY"
      [] name = "get_broken_nodes" -> "BROKEN"
      [] name = "get_not_connected_nodes" -> "NOT_CONNECTED"

VARIABLES
    nodes,            \* self._nodes: insertion-ordered dict, a sequence of <<id, handle>>
    created,          \* number of handles create_node has returned so far
    live,             \* the <<id, handle>> created and not yet through a retirement block
    writer,           \* the task that owns the writer lock, or None
    readers,          \* the tasks that own the reader lock
    write_waiters,    \* the tasks waiting for the writer lock, in arrival order
    pc,               \* pc[t]: where task t is
    op,               \* op[t]: the call task t is running
    old,              \* old[t]: the local old_node of update_node / remove_node
    idx,              \* idx[t]: position of the iteration over self._nodes
    acc,              \* acc[t]: the list a filter comprehension has built so far
    calls,            \* calls[t]: the calls on handles the running call has invoked, each
                      \*   <<method, handle, what it returned>>
    overlap,          \* overlap[t]: for a get_node that waits behind a replace of its id,
                      \*   the handle that replace found and the one it installed
    started,          \* number of calls made so far
    last,             \* the call that finished last: what it was, what it returned or
                      \*   raised, what it called, and self._nodes when its last step began
    db                \* db[t]: the GetDB scope of task t (app/db/base.py): where it is,
                      \*   what the body raised, the calls made on the session, what left it

\* The state of the NodeManager, and the whole state
node_vars == <<nodes, created, live, writer, readers, write_waiters, pc, op, old, idx,
               acc, calls, overlap, started, last>>
vars == <<nodes, created, live, writer, readers, write_waiters, pc, op, old, idx,
          acc, calls, overlap, started, last, db>>

\* ------------------------------------------------------- the dict helpers
RECURSIVE Lookup(_, _)
\* self._nodes.get(id, None)
Lookup(m, id) ==
    IF m = <<>> THEN None
    ELSE IF Head(m)[1] = id THEN Head(m)[2] ELSE Lookup(Tail(m), id)

\* (mutant) a delete that empties the dict
DelNodeAll(m, id) == <<>>

\* del self._nodes[id]
DelNode(m, id) == SelectSeq(m, LAMBDA e : e[1] # id)

\* self._nodes[id] = h (a new key goes last, an existing key keeps its place)
SetNode(m, id, h) ==
    IF Lookup(m, id) = None THEN Append(m, <<id, h>>)
    ELSE [i \in 1..Len(m) |-> IF m[i][1] = id THEN <<id, h>> ELSE m[i]]

ItemsOf(m) == {m[i] : i \in 1..Len(m)}
ValuesOf(m) == {m[i][2] : i \in 1..Len(m)}
Range(q) == {q[i] : i \in 1..Len(q)}

NoOp == [name |-> "none", id |-> 0, kind |-> "rest"]
NoOverlap == [old |-> None, new |-> None, by |-> None]
Ok(h, items, alias) == [st |-> "ok", err |-> "", h |-> h, items |-> items, alias |-> alias]
Raised(e) == [st |-> "raise", err |-> e, h |-> None, items |-> <<>>, alias |-> FALSE]
NoLast ==
    [op |-> NoOp, ret |-> Raised(""), old |-> None, calls |-> <<>>,
     overlap |-> NoOverlap, before |-> <<>>]
\* A task that has made no GetDB() yet
NoSession == [pc |-> "new", exc |-> "none", log |-> <<>>, out |-> "none"]

\* ------------------------------------------------------------------ Init
Init ==
    /\ nodes = <<>>
    /\ created = 0
    /\ live = {}
    /\ writer = None
    /\ readers = {}
    /\ write_waiters = <<>>
    /\ pc = [t \in Tasks |-> "idle"]
    /\ op = [t \in Tasks |-> NoOp]
    /\ old = [t \in Tasks |-> None]
    /\ idx = [t \in Tasks |-> 0]
    /\ acc = [t \in Tasks |-> <<>>]
    /\ calls = [t \in Tasks |-> <<>>]
    /\ overlap = [t \in Tasks |-> NoOverlap]
    /\ started = 0
    /\ last = NoLast
    /\ db = [t \in Tasks |-> NoSession]

\* The call a task is suspended in is the last of its calls: it ends with r.
Resolve(c, r) == [c EXCEPT ![Len(c)] = <<c[Len(c)][1], c[Len(c)][2], r>>]

Outcome(ok) == IF ok THEN "ok" ELSE "raise"

\* The locals of task t
Local(t, p, o, oldh, i, a, c) ==
    /\ pc' = [pc EXCEPT ![t] = p]
    /\ op' = [op EXCEPT ![t] = o]
    /\ old' = [old EXCEPT ![t] = oldh]
    /\ idx' = [idx EXCEPT ![t] = i]
    /\ acc' = [acc EXCEPT ![t] = a]
    /\ calls' = [calls EXCEPT ![t] = c]

\* The call of task t ends: its frame is gone and its outcome is recorded.
Return(t, o, r, oldh, c) ==
    /\ Local(t, "idle", NoOp, None, 0, <<>>, <<>>)
    /\ last' = [op |-> o, ret |-> r, old |-> oldh, calls |-> c,
                overlap |-> overlap[t], before |-> nodes]

\* ------------------------------------------------------------- the lock
\* RWLock: the writer lock is granted when nobody owns the lock.
LockFree == writer = None /\ readers = {}

\* (mutant) a reader lock that is granted while a writer owns the lock
CanReadBesideWriter == write_waiters = <<>>

\* (mutant) a reader lock that is granted past the writers that wait
CanReadPastWaiters == writer = None

\* (mutant) a lock that one task owns at a time, reader or writer
CanReadExclusive == writer = None /\ readers = {} /\ write_waiters = <<>>

\* RWLock: the reader lock is granted when no writer owns the lock and no
\* writer waits for it.
CanRead == writer = None /\ write_waiters = <<>>

\* ----------------------------------------------------- update_node, remove_node
\* The get_node calls that wait behind the replace of task t learn the
\* handle it installed (None when it installed none).
Replaced(t, new_node) ==
    overlap' = [g \in Tasks |->
                  IF overlap[g].by = t
                  THEN [overlap[g] EXCEPT !.new = new_node, !.by = None]
                  ELSE overlap[g]]

\* (mutant) a retirement block without the finally clause
RetireNoFinally(m, id) == m

\* self._nodes after the try/except/finally of the retirement block
Retire(m, id) == DelNode(m, id)

\* The statements after the retirement block, up to the release of the
\* writer lock: for update_node create_node, the insertion and the return
\* (lines 33-47); for remove_node nothing. m is self._nodes and lv the
\* un-retired handles as the retirement block left them, oldh the local
\* old_node, c the calls made.
WriterFinish(t, o, oldh, c, m, lv) ==
    /\ writer' = None
    /\ IF o.name = "remove_node"
       THEN /\ nodes' = m
            /\ live' = lv
            /\ Return(t, o, Ok(None, <<>>, FALSE), oldh, c)
            /\ Replaced(t, None)
            /\ UNCHANGED created
       ELSE IF o.kind \notin DOMAIN type_map
       THEN /\ nodes' = m
            /\ live' = lv
            /\ Return(t, o, Raised("KeyError"), oldh, c)
            /\ Replaced(t, None)
            /\ UNCHANGED created
       ELSE LET new_node == created + 1 IN
            /\ created' = new_node
            /\ nodes' = SetNode(m, o.id, new_node)
            /\ live' = lv \cup {<<o.id, new_node>>}
            /\ Return(t, o, Ok(new_node, <<>>, FALSE), oldh, c)
            /\ Replaced(t, new_node)

\* (mutant) an update_node that does not look for a handle to retire
OldNodeNever(m, id) == None

\* (mutant) a lookup that takes the first handle of the dict, whatever its id
OldNodeFirst(m, id) == IF m = <<>> THEN None ELSE m[1][2]

\* old_node = self._nodes.get(id, None)
OldNode(m, id) == Lookup(m, id)

\* (mutant) a retirement outside the writer lock: the entry is deleted and
\* the lock given back before set_health is awaited
WriterBodyUnlocked(t, o) ==
    LET old_node == OldNode(nodes, o.id) IN
    IF old_node = None
    THEN WriterFinish(t, o, None, <<>>, nodes, live)
    ELSE /\ Local(t, "set_health", o, old_node, 0, <<>>, <<<<"set_health", old_node, "pending">>>>)
         /\ nodes' = DelNode(nodes, o.id)
         /\ writer' = None
         /\ UNCHANGED <<created, live, overlap, last>>

\* What a task does from the moment it owns the writer lock up to its
\* first suspension: the lookup of old_node and, if there is one, the
\* call of set_health(INVALID), in which it suspends.
WriterBody(t, o) ==
    LET old_node == OldNode(nodes, o.id) IN
    IF old_node = None
    THEN WriterFinish(t, o, None, <<>>, nodes, live)
    ELSE /\ Local(t, "set_health", o, old_node, 0, <<>>, <<<<"set_health", old_node, "pending">>>>)
         /\ writer' = t
         /\ UNCHANGED <<nodes, created, live, overlap, last>>

\* A call of update_node or remove_node: with the lock free the task owns
\* it at once (RWLock(fast=True) does not yield) and runs on; otherwise
\* it queues for the writer lock.
CallWriter(t, o) ==
    /\ pc[t] = "idle"
    /\ started < MaxCalls
    /\ started' = started + 1
    /\ IF LockFree
       THEN /\ WriterBody(t, o)
            /\ UNCHANGED write_waiters
       ELSE /\ Local(t, "w_wait", o, None, 0, <<>>, <<>>)
            /\ write_waiters' = Append(write_waiters, t)
            /\ UNCHANGED <<nodes, created, live, writer, overlap, last>>
    /\ UNCHANGED readers

update_node(t, id, kind) ==
    /\ kind \in ConnectionTypes
    /\ CallWriter(t, [name |-> "update_node", id |-> id, kind |-> kind])
    /\ UNCHANGED db

remove_node(t, id) ==
    /\ id \in Ids
    /\ CallWriter(t, [name |-> "remove_node", id |-> id, kind |-> "rest"])
    /\ UNCHANGED db

\* The first waiting writer is granted the lock once it is free.
WriterResume(t) ==
    /\ pc[t] = "w_wait"
    /\ write_waiters # <<>> /\ Head(write_waiters) = t
    /\ LockFree
    /\ write_waiters' = Tail(write_waiters)
    /\ WriterBody(t, op[t])
    /\ UNCHANGED <<readers, started>>
    /\ UNCHANGED db

\* await old_node.set_health(Health.INVALID) returns or raises. On a
\* return the task goes on to call stop(), in which it suspends; on a
\* raise the except clause swallows it, the finally clause deletes the
\* entry and the task runs on to the end of the call.
SetHealthReturn(t, ok) ==
    /\ pc[t] = "set_health"
    /\ IF ok
       THEN /\ Local(t, "stop", op[t], old[t], 0, <<>>, Append(Resolve(calls[t], "ok"), <<"stop", old[t], "pending">>))
            /\ UNCHANGED <<nodes, created, live, writer, overlap, last>>
       ELSE WriterFinish(t, op[t], old[t], Resolve(calls[t], "raise"), Retire(nodes, op[t].id),
                         live \ {<<op[t].id, old[t]>>})
    /\ UNCHANGED <<readers, write_waiters, started>>
    /\ UNCHANGED db

\* await old_node.stop() returns or raises: either way the entry is
\* deleted and the task runs on to the end of the call.
StopReturn(t, ok) ==
    /\ pc[t] = "stop"
    /\ ok \in BOOLEAN
    /\ WriterFinish(t, op[t], old[t], Resolve(calls[t], Outcome(ok)), Retire(nodes, op[t].id),
                    live \ {<<op[t].id, old[t]>>})
    /\ UNCHANGED <<readers, write_waiters, started>>
    /\ UNCHANGED db

\* ------------------------------------------------ readers: lookups, filters, fan-out
\* The call of reader t ends and gives the reader lock back.
ReaderReturn(t, o, r, c) ==
    /\ Return(t, o, r, None, c)
    /\ readers' = readers \ {t}
    /\ overlap' = [overlap EXCEPT ![t] = NoOverlap]

\* The handle method a read operation awaits on each handle: get_health in
\* the filters, update_users in update_users, update_user in _update_user
\* (which update_user and remove_user both end in).
NodeCall(name) ==
    IF name \in FilterOps THEN "get_health"
    ELSE IF name = "update_users" THEN "update_users" ELSE "update_user"

\* What a task does from the moment it owns the reader lock up to its
\* first suspension. get_node and get_nodes return without suspending;
\* get_nodes returns self._nodes itself (alias). A filter and a broadcast
\* over an empty dict return at once, otherwise they call the handle
\* method on the first handle and suspend in it.
ReaderBody(t, o) ==
    IF o.name = "get_node"
    THEN ReaderReturn(t, o, Ok(Lookup(nodes, o.id), <<>>, FALSE), <<>>)
    ELSE IF o.name = "get_nodes"
    THEN ReaderReturn(t, o, Ok(None, <<>>, TRUE), <<>>)
    ELSE IF nodes = <<>>
    THEN ReaderReturn(t, o, Ok(None, <<>>, FALSE), <<>>)
    ELSE /\ Local(t, NodeCall(o.name), o, None, 1, <<>>,
               <<<<NodeCall(o.name), nodes[1][2], "pending">>>>)
         /\ readers' = readers \cup {t}
         /\ UNCHANGED <<overlap, last>>

\* The replace a get_node finds the writer lock held by, on its own id.
Replacing(o) ==
    IF /\ o.name = "get_node"
       /\ writer # None
       /\ op[writer].name = "update_node"
       /\ op[writer].id = o.id
    THEN [old |-> old[writer], new |-> None, by |-> writer]
    ELSE NoOverlap

\* A task enters a read operation: with the reader lock available it owns
\* it at once and runs on; otherwise it waits for it.
EnterReader(t, o) ==
    /\ pc[t] = "idle"
    /\ IF CanRead
       THEN ReaderBody(t, o)
       ELSE /\ Local(t, "r_wait", o, None, 0, <<>>, <<>>)
            /\ overlap' = [overlap EXCEPT ![t] = Replacing(o)]
            /\ UNCHANGED <<readers, last>>
    /\ UNCHANGED <<nodes, created, live, writer, write_waiters>>

\* A call of a read operation, counted.
CallReader(t, o) ==
    /\ started < MaxCalls
    /\ started' = started + 1
    /\ EnterReader(t, o)

get_node(t, id) ==
    /\ id \in Ids
    /\ CallReader(t, [name |-> "get_node", id |-> id, kind |-> "rest"])
    /\ UNCHANGED db

get_nodes(t) ==
    /\ t \in Tasks
    /\ CallReader(t, [name |-> "get_nodes", id |-> 0, kind |-> "rest"])
    /\ UNCHANGED db

\* get_healthy_nodes, get_broken_nodes, get_not_connected_nodes
get_filtered_nodes(t, name) ==
    /\ name \in FilterOps
    /\ CallReader(t, [name |-> name, id |-> 0, kind |-> "rest"])
    /\ UNCHANGED db

\* update_users, update_user, remove_user
broadcast(t, name) ==
    /\ name \in BroadcastOps
    /\ CallReader(t, [name |-> name, id |-> 0, kind |-> "rest"])
    /\ UNCHANGED db

\* A waiting reader is granted the lock once no writer owns or awaits it.
ReaderResume(t) ==
    /\ pc[t] = "r_wait"
    /\ CanRead
    /\ ReaderBody(t, op[t])
    /\ UNCHANGED <<nodes, created, live, writer, write_waiters, started>>
    /\ UNCHANGED db

\* The comprehension's condition on one item: keep it when get_health()
\* returned the filter's health.
Keep(items, item, got, target) == IF got = target THEN Append(items, item) ELSE items

\* What a filter does when get_health() raised on the current item:
\* nothing catches it, so the comprehension and the call end with it.
OnHealthError(t) == ReaderReturn(t, op[t], Raised("NodeError"), Resolve(calls[t], "raise"))

\* await node.get_health() returns or raises inside the comprehension of a
\* filter; a return goes on to the next item or returns the list. The
\* health of a handle belongs to the node bridge: got is what the call
\* returned ("raise" when it raised), and is noted with the call.
GetHealthReturn(t, got) ==
    /\ pc[t] = "get_health"
    /\ IF got \in HealthStates
       THEN LET item == nodes[idx[t]]
                items == Keep(acc[t], item, got, FilterTarget(op[t].name))
                seen == Resolve(calls[t], got)
            IN IF idx[t] < Len(nodes)
               THEN /\ Local(t, "get_health", op[t], None, idx[t] + 1, items,
                             Append(seen, <<"get_health", nodes[idx[t] + 1][2], "pending">>))
                    /\ UNCHANGED <<readers, overlap, last>>
               ELSE ReaderReturn(t, op[t], Ok(None, items, FALSE), seen)
       ELSE /\ got = "raise"
            /\ OnHealthError(t)
    /\ UNCHANGED <<nodes, created, live, writer, write_waiters, started>>
    /\ UNCHANGED db

\* What the for loop of a broadcast does when the update call on the
\* current handle raised: nothing catches it, so the loop and the call end.
OnUpdateError(t) == ReaderReturn(t, op[t], Raised("NodeError"), Resolve(calls[t], "raise"))

\* (mutant) a fan-out that returns after the first handle
UpdateReturnStopsEarly(t, ok) ==
    /\ pc[t] \in {"update_users", "update_user"}
    /\ IF ok
       THEN ReaderReturn(t, op[t], Ok(None, <<>>, FALSE), Resolve(calls[t], "ok"))
       ELSE OnUpdateError(t)
    /\ UNCHANGED <<nodes, created, live, writer, write_waiters, started>>
    /\ UNCHANGED db

\* await node.update_users(...) / node.update_user(...) returns or raises
\* inside the for loop of a broadcast; a return goes on to the next handle
\* or ends the call.
UpdateReturn(t, ok) ==
    /\ pc[t] \in {"update_users", "update_user"}
    /\ IF ok
       THEN IF idx[t] < Len(nodes)
            THEN /\ Local(t, pc[t], op[t], None, idx[t] + 1, <<>>,
                          Append(Resolve(calls[t], "ok"),
                                 <<pc[t], nodes[idx[t] + 1][2], "pending">>))
                 /\ UNCHANGED <<readers, overlap, last>>
            ELSE ReaderReturn(t, op[t], Ok(None, <<>>, FALSE), Resolve(calls[t], "ok"))
       ELSE OnUpdateError(t)
    /\ UNCHANGED <<nodes, created, live, writer, write_waiters, started>>
    /\ UNCHANGED db

\* ------------------------------------------------------------------ Next
Next ==
    \/ \E t \in Tasks, id \in Ids, kind \in ConnectionTypes : update_node(t, id, kind)
    \/ \E t \in Tasks, id \in Ids : remove_node(t, id)
    \/ \E t \in Tasks : WriterResume(t)
    \/ \E t \in Tasks, ok \in BOOLEAN : SetHealthReturn(t, ok)
    \/ \E t \in Tasks, ok \in BOOLEAN : StopReturn(t, ok)
    \/ \E t \in Tasks, id \in Ids : get_node(t, id)
    \/ \E t \in Tasks : get_nodes(t)
    \/ \E t \in Tasks, name \in FilterOps : get_filtered_nodes(t, name)
    \/ \E t \in Tasks, name \in BroadcastOps : broadcast(t, name)
    \/ \E t \in Tasks : ReaderResume(t)
    \/ \E t \in Tasks, got \in HealthStates \cup {"raise"} : GetHealthReturn(t, got)
    \/ \E t \in Tasks, ok \in BOOLEAN : UpdateReturn(t, ok)

Spec == Init /\ [][Next]_vars

\* ------------------------------------------- app/db/base.py: GetDB, get_db
\* Each task may open database session scopes, one after the other:
\* `async with GetDB() as db:` directly, or through the dependency get_db,
\* whose body is that same statement around a yield.
\* Classes that are SQLAlchemyError or derive from it, and what the body of
\* the with statement can end with: nothing raised, one of those, or an
\* exception of another class.
SQLAlchemyErrors == {"SQLAlchemyError", "IntegrityError"}
BodyOutcomes == {"none", "ValueError"} \cup SQLAlchemyErrors

\* isinstance(exc_value, SQLAlchemyError)
IsSQLAlchemyError(exc_value) == exc_value \in SQLAlchemyErrors

\* The scope of task t becomes s.
Scope(t, s) ==
    /\ db' = [db EXCEPT ![t] = s]
    /\ UNCHANGED node_vars

\* GetDB() and __aenter__: a new session, handed to the body.
GetDB(t) ==
    /\ db[t].pc \in {"new", "exited"}
    /\ Scope(t, [pc |-> "body", exc |-> "none", log |-> <<>>, out |-> "none"])

\* The body ends with exc_value and __aexit__ runs up to its first await:
\* rollback() for an SQLAlchemyError, close() otherwise.
aexit(t, exc_value) ==
    /\ db[t].pc = "body"
    /\ exc_value \in BodyOutcomes
    /\ IF IsSQLAlchemyError(exc_value)
       THEN Scope(t, [db[t] EXCEPT !.pc = "rollback", !.exc = exc_value,
                                   !.log = <<<<"rollback", t, "pending">>>>])
       ELSE Scope(t, [db[t] EXCEPT !.pc = "close", !.exc = exc_value,
                                   !.log = <<<<"close", t, "pending">>>>])

\* await self.db.rollback() returns, and close() is called, or raises, and
\* __aexit__ ends with that exception: line 47 is not reached.
rollback_returns(t, ok) ==
    /\ db[t].pc = "rollback"
    /\ IF ok
       THEN Scope(t, [db[t] EXCEPT !.pc = "close",
                                   !.log = Append(Resolve(@, "ok"), <<"close", t, "pending">>)])
       ELSE Scope(t, [db[t] EXCEPT !.pc = "exited", !.out = "rollback_error",
                                   !.log = Resolve(@, "raise")])

\* await self.db.close() returns, and the scope is left with what the body
\* raised (__aexit__ returns None), or raises, and it is left with that.
close_returns(t, ok) ==
    /\ db[t].pc = "close"
    /\ Scope(t, [db[t] EXCEPT !.pc = "exited",
                              !.out = IF ok THEN db[t].exc ELSE "close_error",
                              !.log = Resolve(@, Outcome(ok))])

NextDB ==
    \/ \E t \in Tasks : GetDB(t)
    \/ \E t \in Tasks, exc_value \in BodyOutcomes : aexit(t, exc_value)
    \/ \E t \in Tasks, ok \in BOOLEAN : rollback_returns(t, ok)
    \/ \E t \in Tasks, ok \in BOOLEAN : close_returns(t, ok)

SpecDB == Init /\ [][NextDB]_vars

\* ------------------------------------------------------- read traffic
\* Read operations that keep arriving: calls of read operations without the
\* count of calls, so that a run may contain any number of them (update_node
\* and remove_node stay counted). get_node and get_nodes return without an
\* await; update_users stands for the operations that hold the reader lock
\* across awaits, which all take and give back the lock the same way.
ReadOps ==
    {[name |-> "get_node", id |-> id, kind |-> "rest"] : id \in Ids}
    \cup {[name |-> n, id |-> 0, kind |-> "rest"] : n \in {"get_nodes", "update_users"}}

ReadArrives(t, o) ==
    /\ o \in ReadOps
    /\ EnterReader(t, o)
    /\ UNCHANGED <<started, db>>

NextTraffic ==
    \/ \E t \in Tasks, id \in Ids, kind \in ConnectionTypes : update_node(t, id, kind)
    \/ \E t \in Tasks, id \in Ids : remove_node(t, id)
    \/ \E t \in Tasks : WriterResume(t)
    \/ \E t \in Tasks, ok \in BOOLEAN : SetHealthReturn(t, ok)
    \/ \E t \in Tasks, ok \in BOOLEAN : StopReturn(t, ok)
    \/ \E t \in Tasks, o \in ReadOps : ReadArrives(t, o)
    \/ \E t \in Tasks : ReaderResume(t)
    \/ \E t \in Tasks, ok \in BOOLEAN : UpdateReturn(t, ok)

\* The event loop runs every task that can run: a waiting task that can be
\* granted the lock is granted it.
LockFairness ==
    \A t \in Tasks : WF_vars(WriterResume(t)) /\ WF_vars(ReaderResume(t))

\* Every call on a handle made by a read operation returns or raises.
ReadCallsReturn ==
    \A t \in Tasks :
        /\ WF_vars(\E got \in HealthStates \cup {"raise"} : GetHealthReturn(t, got))
        /\ WF_vars(\E ok \in BOOLEAN : UpdateReturn(t, ok))

\* Every set_health and stop of a retirement block returns or raises.
RetirementCallsReturn ==
    \A t \in Tasks :
        /\ WF_vars(\E ok \in BOOLEAN : SetHealthReturn(t, ok))
        /\ WF_vars(\E ok \in BOOLEAN : StopReturn(t, ok))

\* Unending read traffic, every remote call returning
SpecTraffic ==
    Init /\ [][NextTraffic]_vars /\ LockFairness /\ ReadCallsReturn /\ RetirementCallsReturn

\* The calls of Spec, where a set_health or stop of a retirement block may
\* never return
SpecHang == Init /\ [][Next]_vars /\ LockFairness /\ ReadCallsReturn

\* ================================================================ claims
WriterCS == {"set_health", "stop"}
ReaderCS == {"get_health", "update_users", "update_user"}

\* The handles a finished call invoked method on, and those on which it raised
CalledOn(c, method) == {c[i][2] : i \in {j \in 1..Len(c) : c[j][1] = method}}
RaisedIn(c) == {i \in 1..Len(c) : c[i][3] = "raise"}
Times(c, method, h) == Cardinality({i \in 1..Len(c) : c[i][1] = method /\ c[i][2] = h})

\* C1. Atomic replace: a get_node(id) that waited behind an update_node(id)
\* which found a handle under id returns the handle that was there or the
\* handle the update_node installed, never None.
C1_AtomicReplace ==
    (last.op.name = "get_node" /\ last.overlap.old # None)
        => /\ last.ret.st = "ok"
           /\ last.ret.h # None
           /\ last.ret.h \in {last.overlap.old, last.overlap.new}

\* C2. Broadcast resilience: a broadcast in which the update call on one
\* handle raised has still invoked the update call on every handle of the
\* registry and returns without raising.
C2_BroadcastResilience ==
    (last.op.name \in BroadcastOps /\ RaisedIn(last.calls) # {})
        => /\ last.ret.st = "ok"
           /\ CalledOn(last.calls, NodeCall(last.op.name)) = ValuesOf(last.before)

\* C3. An update_node with a connection kind that is no key of type_map
\* raises and leaves self._nodes as it was, without a call on any handle.
C3_UnknownKindNoMutation ==
    (last.op.name = "update_node" /\ last.op.kind \notin DOMAIN type_map)
        => /\ last.ret.st = "raise"
           /\ nodes = last.before
           /\ last.calls = <<>>

C5_HealthFiltering ==
    last.op.name \in FilterOps
        => /\ last.ret.st = "ok"
           /\ CalledOn(last.calls, "get_health") = ValuesOf(last.before)
           /\ Range(last.ret.items)
                = {e \in ItemsOf(last.before) :
                     \E i \in 1..Len(last.calls) :
                        last.calls[i] = <<"get_health", e[2], FilterTarget(last.op.name)>>}

\* C6. Lock scope: no task is suspended in get_health, update_user or
\* update_users on a handle while it holds the registry lock.
C6_LockScope ==
    \A t \in Tasks : pc[t] \in ReaderCS => t \notin readers

\* C7. Reader-writer exclusion: while a task is inside the writer critical
\* section of update_node or remove_node, no other task is inside a critical
\* section, and none enters or passes through one: a call made meanwhile
\* only starts to wait for the lock, and a waiting task keeps waiting.
C7_Exclusion ==
    /\ [](\A t, u \in Tasks :
            (t # u /\ pc[t] \in WriterCS) => pc[u] \notin WriterCS \cup ReaderCS)
    /\ [][\A t \in Tasks : pc[t] \in WriterCS =>
            /\ \A u \in Tasks \ {t} :
                  pc'[u] # pc[u] => (pc[u] = "idle" /\ pc'[u] \in {"w_wait", "r_wait"})
            /\ started' # started =>
                  \E u \in Tasks \ {t} : pc[u] = "idle" /\ pc'[u] \in {"w_wait", "r_wait"}
       ]_vars

\* A reader call was made while a writer is inside its critical section.
C7_Witness ==
    \E t, u \in Tasks :
        /\ pc[t] \in WriterCS
        /\ pc[u] = "r_wait"

\* C8. Uniqueness: self._nodes holds at most one entry per id, and per id
\* at most one handle has been created and not gone through retirement.
C8_Uniqueness ==
    /\ \A i, j \in 1..Len(nodes) : nodes[i][1] = nodes[j][1] => i = j
    /\ \A id \in Ids : Cardinality({e \in live : e[1] = id}) <= 1

\* Two update_node calls for one id are under way, one retiring the handle
\* it found, the other waiting for the lock.
C8_Witness ==
    \E t, u \in Tasks :
        /\ pc[t] \in WriterCS /\ op[t].name = "update_node"
        /\ pc[u] = "w_wait" /\ op[u].name = "update_node"
        /\ op[u].id = op[t].id
        /\ op[u].kind \in DOMAIN type_map /\ op[t].kind \in DOMAIN type_map

\* C9. Idempotent remove: a remove_node of an id that has no handle leaves
\* self._nodes as it was, calls nothing on any handle and does not raise.
C9_IdempotentRemove ==
    (last.op.name = "remove_node" /\ Lookup(last.before, last.op.id) = None)
        => /\ nodes = last.before
           /\ last.calls = <<>>
           /\ last.ret.st = "ok"

C9_Witness ==
    /\ last.op.name = "remove_node"
    /\ Lookup(last.before, last.op.id) = None
    /\ nodes # <<>>

\* C10. Replace retires the old handle exactly once: an update_node that
\* found a handle under its id and returned has invoked stop() exactly once
\* on that handle, the id maps to the new handle and the old handle is in
\* self._nodes no more.
C10_ReplaceRetiresOnce ==
    ( /\ last.op.name = "update_node"
      /\ Lookup(last.before, last.op.id) # None
      /\ last.ret.st = "ok" )
        => /\ Times(last.calls, "stop", Lookup(last.before, last.op.id)) = 1
           /\ Lookup(nodes, last.op.id) = last.ret.h
           /\ Lookup(last.before, last.op.id) \notin ValuesOf(nodes)

\* A step in which a call of get_nodes returns: a call that owned the reader
\* lock at once, or a waiting one that was granted it.
GetNodesReturns ==
    /\ last'.op.name = "get_nodes"
    /\ \/ started' # started /\ pc' = pc
       \/ \E t \in Tasks : pc[t] = "r_wait" /\ op[t].name = "get_nodes" /\ pc'[t] = "idle"

\* What the mapping a call returned holds when self._nodes is m: the
\* returned object is self._nodes itself (alias) or a list of its own.
HeldContents(r, m) == IF r.alias THEN m ELSE r.items

\* C12. Snapshot linearizability: the mapping get_nodes returns is
\* self._nodes as it stands between two writer critical sections: at the
\* return no update_node or remove_node in progress has changed the entry
\* of its id (its old handle is still the one under the id).
C12_SnapshotLinearizable ==
    [][GetNodesReturns =>
          /\ last'.ret.st = "ok"
          /\ last'.before = nodes'
          /\ \A w \in Tasks : pc[w] \in WriterCS =>
                Lookup(HeldContents(last'.ret, nodes'), op[w].id) = old[w]
      ]_vars

\* get_nodes returned the dict as a replace left it: the new handle under
\* the id, the old handle gone.
C12_Witness ==
    /\ last.op.name = "get_nodes"
    /\ created = 2
    /\ last.before = <<<<1, 2>>>>

\* C13. Snapshot is a point-in-time value: the mapping a get_nodes call
\* returned keeps its contents in every later step.
C13_SnapshotKeepsContents ==
    [][last.op.name = "get_nodes" =>
          HeldContents(last.ret, nodes') = HeldContents(last.ret, nodes)]_vars

\* C14. Broadcast completeness: a broadcast in which no handle call raised
\* has invoked the update call exactly once on every handle of self._nodes
\* and on no other handle (none retired, none created later), and returns.
C14_BroadcastCompleteness ==
    (last.op.name \in BroadcastOps /\ RaisedIn(last.calls) = {})
        => /\ last.ret.st = "ok"
           /\ CalledOn(last.calls, NodeCall(last.op.name)) = ValuesOf(last.before)
           /\ Len(last.calls) = Len(last.before)
           /\ \A h \in ValuesOf(last.before) :
                 Times(last.calls, NodeCall(last.op.name), h) = 1
           /\ \A h \in CalledOn(last.calls, NodeCall(last.op.name)) :
                 \E e \in live : e[2] = h

C14_Witness ==
    /\ last.op.name \in BroadcastOps
    /\ RaisedIn(last.calls) = {}
    /\ Len(last.before) = 2

\* C15. Readers do not block readers: while a filter or a broadcast is
\* suspended in a call on a handle and no writer owns or awaits the lock,
\* no call of a read operation starts to wait for the lock.
C15_ReadersShareLock ==
    [][ ( /\ \E u \in Tasks : pc[u] \in ReaderCS
          /\ writer = None
          /\ write_waiters = <<>> )
        => \A t \in Tasks : ~(pc[t] = "idle" /\ pc'[t] = "r_wait")
      ]_vars

\* A get_node has returned a handle while a fan-out or a filter of the
\* other task is suspended in a call on a handle.
C15_Witness ==
    /\ last.op.name = "get_node"
    /\ last.ret.h # None
    /\ \E u \in Tasks : pc[u] \in ReaderCS /\ readers = {u}

\* C16. Retirement order: an update_node or remove_node that found a handle
\* under its id has called set_health(INVALID) on it first and stop() on it
\* second, whatever set_health did, and deleted the entry last.
C16_RetirementOrder ==
    (last.op.name \in WriterOps /\ last.old # None)
        => /\ Len(last.calls) = 2
           /\ last.calls[1][1] = "set_health" /\ last.calls[1][2] = last.old
           /\ last.calls[2][1] = "stop" /\ last.calls[2][2] = last.old
           /\ Lookup(last.before, last.op.id) = last.old
           /\ last.old \notin ValuesOf(nodes)

\* C18. The registry calls set_health only in a retirement block and only
\* on the handle being retired: no read operation calls it, the handle an
\* update_node installs has had no call, and a handle that went through a
\* retirement block is a value of self._nodes no more.
C18_HealthWrites ==
    /\ \A t \in Tasks : \A i \in 1..Len(calls[t]) :
          calls[t][i][1] = "set_health"
              => (op[t].name \in WriterOps /\ i = 1 /\ calls[t][i][2] = old[t])
    /\ \A i \in 1..Len(last.calls) :
          last.calls[i][1] = "set_health"
              => /\ last.op.name \in WriterOps /\ i = 1
                 /\ last.calls[i][2] = last.old
                 /\ last.old \notin ValuesOf(nodes)
    /\ last.ret.h # None => \A i \in 1..Len(last.calls) : last.calls[i][2] # last.ret.h
    /\ ItemsOf(nodes) \subseteq live

C18_Witness ==
    /\ last.op.name = "remove_node"
    /\ last.calls # <<>> /\ last.calls[1] = <<"set_health", last.old, "ok">>
    /\ nodes # <<>>

\* C19. Writes are local to their id: an update_node or remove_node leaves
\* the entry of every other id as it was and calls only the handle that was
\* under its id; a read operation or a broadcast leaves self._nodes as it was.
C19_WritesLocal ==
    /\ last.op.name \in WriterOps
          => /\ \A id \in Ids \ {last.op.id} :
                   Lookup(nodes, id) = Lookup(last.before, id)
             /\ \A i \in 1..Len(last.calls) :
                   /\ last.calls[i][2] # None
                   /\ last.calls[i][2] = Lookup(last.before, last.op.id)
    /\ last.op.name \notin WriterOps => nodes = last.before

C19_Witness ==
    /\ last.op.name \in WriterOps
    /\ last.old # None
    /\ Len(last.before) = 2
    /\ nodes # <<>>

\* C20. Database session scope: every exit from a GetDB scope has closed
\* the session exactly once, whatever the body did; rollback was called,
\* and before the close, exactly when the body raised an SQLAlchemyError,
\* and the close is made also when that rollback raised.
C20_SessionScope ==
    \A t \in Tasks : db[t].pc = "exited" =>
        /\ Times(db[t].log, "close", t) = 1
        /\ db[t].log[Len(db[t].log)][1] = "close"
        /\ Times(db[t].log, "rollback", t) = (IF IsSQLAlchemyError(db[t].exc) THEN 1 ELSE 0)
        /\ IsSQLAlchemyError(db[t].exc) => db[t].log[1][1] = "rollback"

\* C11. Writer starvation-freedom: with every remote call returning, every
\* update_node and remove_node that was started gets the writer lock and
\* ends, however many read operations keep arriving.
C11_WriterProgress ==
    \A t \in Tasks : (pc[t] \in WriterCS \cup {"w_wait"}) ~> (pc[t] = "idle")

\* A writer waits for the lock behind a reader suspended in a call on a
\* handle, with no call left in the budget: all that can still arrive is
\* read traffic.
C11_Witness ==
    \E t, u \in Tasks :
        /\ pc[t] = "w_wait"
        /\ pc[u] \in ReaderCS
        /\ started = MaxCalls

\* C17. Bounded retirement: also when a set_health or stop of a retirement
\* block never returns, no task owns the writer lock forever, and every
\* call that waits for the lock meanwhile is granted it and ends.
C17_BoundedRetirement ==
    /\ \A t \in Tasks : (writer = t) ~> (writer # t)
    /\ \A t \in Tasks : (pc[t] = "r_wait") ~> (pc[t] = "idle")
    /\ \A t \in Tasks : (pc[t] = "w_wait") ~> (pc[t] # "w_wait")

====
